---- MODULE Spec2Model ----
(***************************************************************************)
(* Model of src/main.py: the AI Recover API.  Three POST handlers          *)
(* (/question, /consult, /todo/coach) resolve a teacher persona from the   *)
(* TEACHERS registry, build a message list and hand it to chat_api, which  *)
(* posts it to the configured provider with a bounded retry loop and maps  *)
(* every failure to a string.                                              *)
(*                                                                         *)
(* Python values are tagged records (type |-> "str" | "int" | "NoneType"   *)
(* | "list" | "dict").  A Python str is a sequence of tokens, the empty    *)
(* str is << >>, concatenation is \o, and an f-string is the concatenation *)
(* of its literal parts and its formatted values.  The Japanese literals   *)
(* of the source are written as ASCII stand-ins.  Python lists are objects *)
(* on a heap and are named by their address, so that aliasing shows.       *)
(* Time is counted in tenths of a second.                                  *)
(***************************************************************************)
EXTENDS Integers, Sequences, FiniteSets, TLC

VARIABLES
    PROVIDER,            \* main.py:8
    OPENAI_API_KEY,      \* main.py:9
    GROQ_API_KEY,        \* main.py:10
    OPENROUTER_API_KEY,  \* main.py:11
    USE_FAKE,            \* main.py:13
    TEACHERS,            \* main.py:51, the registry dict
    heap,                \* the list objects: address -> sequence of messages
    pc,                  \* per worker: "idle", "attempt" (inside chat_api's loop), "done"
    req,                 \* per worker: the request being served
    msgs,                \* per worker: address of the list handed to chat_api (0: none)
    retries,             \* per worker: chat_api's parameter
    timeout_sec,         \* per worker: chat_api's parameter
    attempt,             \* per worker: number of loop iterations completed
    last_err,            \* per worker: chat_api's local last_err
    result,              \* per worker: the value chat_api returned
    reply,               \* per worker: what the client receives
    log,                 \* per worker: the upstream outcomes of the current call, in order
    elapsed              \* per worker: time spent inside chat_api, in tenths of a second

config == <<PROVIDER, OPENAI_API_KEY, GROQ_API_KEY, OPENROUTER_API_KEY, USE_FAKE>>
frame == <<msgs, retries, timeout_sec, attempt, last_err, result, log, elapsed>>
vars == <<config, TEACHERS, heap, pc, req, frame, reply>>

\* ---------------------------------------------------------------- bounds
MaxRetries == 2     \* chat_api is called directly with retries in 0..MaxRetries
MaxTasks == 1       \* a /todo/coach request carries at most MaxTasks tasks
MaxExtra == 2       \* an error body is at most TruncLen + MaxExtra characters long
QuickTenths == 1    \* duration of an attempt that ends before the timeout
NumWorkers == 2     \* requests served concurrently (threadpool workers)

\* ---------------------------------------------------- program constants
DefaultRetries == 1
DefaultTimeoutSec == 30
TruncLen == 500
ErrorStatus == 400
SleepTenths == 12

Workers == 1..NumWorkers

\* ---------------------------------------------------------- Python values
PyNone == [type |-> "NoneType"]
PyStr(s) == [type |-> "str", s |-> s]
PyInt(n) == [type |-> "int", n |-> n]
PyList(a) == [type |-> "list", a |-> a]
PyDict(o) == [type |-> "dict", o |-> o]
EmptyDict == PyDict(<< >>)

\* a literal of the source as a str value's token sequence
Lit(t) == IF t = "" THEN << >> ELSE <<t>>

\* bool(v)
Truthy(v) ==
    CASE v.type = "NoneType" -> FALSE
      [] v.type = "str" -> v.s # << >>
      [] v.type = "int" -> v.n # 0
      [] v.type = "list" -> v.a # << >>
      [] v.type = "dict" -> DOMAIN v.o # {}
      [] OTHER -> TRUE

\* a or b
Or(a, b) == IF Truthy(a) THEN a ELSE b

\* the outcome of an expression that may raise
Value(v) == [raised |-> FALSE, val |-> v]
Raise(type, msg) == [raised |-> TRUE, exc |-> [type |-> type, msg |-> msg]]

\* str(v) for the values an f-string formats
Str(v) ==
    CASE v.type = "str" -> v.s
      [] v.type = "int" -> <<ToString(v.n)>>
      [] v.type = "NoneType" -> <<"None">>
      [] OTHER -> <<"<object>">>

\* str(e) of an exception
ExcStr(e) == e.msg

\* ------------------------------------------------------------- registry
TeacherKeys == <<"cool_female", "yankee", "gentle_sister", "gentle_brother",
                 "energetic_male", "little_sister">>
TeacherNames == <<"Saki", "Natsuki", "Shiori", "Yuma", "Haruya", "Hinata">>
Tasks == <<"question", "consult", "todo">>

NumShotLists == Len(TeacherKeys) * Len(Tasks)
\* address of the few-shot list of the k-th teacher for the t-th task
ShotAddr(k, t) == Len(Tasks) * (k - 1) + t
\* address of the list a worker's request builds
ReqAddr(r) == NumShotLists + r
Addrs == 1..(NumShotLists + NumWorkers)

Message(role, content) == [role |-> role, content |-> content]

\* the two messages of a few-shot list (main.py:59-70 and alike)
FewShot(k, t) ==
    << Message("user", <<"shot-user", TeacherKeys[k], Tasks[t]>>),
       Message("assistant", <<"shot-assistant", TeacherKeys[k], Tasks[t]>>) >>

Teacher(k) ==
    [name |-> <<TeacherNames[k]>>,
     style |-> <<"style", TeacherKeys[k]>>,
     fewshot_question |-> ShotAddr(k, 1),
     fewshot_consult |-> ShotAddr(k, 2),
     fewshot_todo |-> ShotAddr(k, 3)]

\* TEACHERS as the module defines it: a dict from key (a str) to persona
TeacherRegistry ==
    [key \in {<<TeacherKeys[k]>> : k \in 1..Len(TeacherKeys)} |->
        Teacher(CHOOSE k \in 1..Len(TeacherKeys) : <<TeacherKeys[k]>> = key)]

\* the heap once the module is loaded: the few-shot lists, and no request list
InitialHeap ==
    [a \in Addrs |->
        IF a <= NumShotLists
        THEN FewShot(((a - 1) \div Len(Tasks)) + 1, ((a - 1) % Len(Tasks)) + 1)
        ELSE << >>]

DefaultTeacher == <<"gentle_brother">>

\* TEACHERS.get(teacher_key, TEACHERS["gentle_brother"])
TeacherGet(teacher_key) ==
    IF teacher_key \in DOMAIN TEACHERS THEN TEACHERS[teacher_key]
    ELSE TEACHERS[DefaultTeacher]

\* Profile(): the defaults of the model class
DefaultProfile == [nickname |-> << >>, ageGroup |-> <<"university">>,
                   temperament |-> <<"steady">>]

\* system_for(teacher_key, profile): the system prompt, a str
system_for(teacher_key, profile) ==
    LET t == TeacherGet(teacher_key)
        who == t.name
        p == IF profile.type = "NoneType" THEN DefaultProfile ELSE profile.o
        persona_line == <<"You are homeroom teacher '">> \o who \o <<"'. ">> \o t.style
        user_line == <<"Student: nickname=">>
                     \o (IF p.nickname # << >> THEN p.nickname ELSE <<"student">>)
                     \o <<", age group=">> \o p.ageGroup
                     \o <<", temperament=">> \o p.temperament
                     \o <<". Never write meta remarks.">>
    IN persona_line \o <<"\n">> \o user_line

\* the few-shot examples of the default persona whatever the teacher
ShotsFieldDefault(t, task) ==
    CASE task = "question" -> TEACHERS[DefaultTeacher].fewshot_question
      [] task = "consult" -> TEACHERS[DefaultTeacher].fewshot_consult
      [] task = "todo" -> TEACHERS[DefaultTeacher].fewshot_todo

ShotsField(t, task) ==
    CASE task = "question" -> t.fewshot_question
      [] task = "consult" -> t.fewshot_consult
      [] task = "todo" -> t.fewshot_todo

\* the few-shot list itself with the system message put in front, no new list
scaffold_messages_alias(h, new, teacher_key, profile, task) ==
    LET t == TeacherGet(teacher_key)
        shots == ShotsField(t, task)
        system == Message("system", system_for(teacher_key, profile))
    IN [ref |-> shots,
        heap |-> [h EXCEPT ![shots] = <<system>> \o @]]

\* scaffold_messages(teacher_key, profile, task), run on heap h with the new
\* list allocated at address new: the list's address and the heap afterwards
scaffold_messages(h, new, teacher_key, profile, task) ==
    LET t == TeacherGet(teacher_key)
        shots == ShotsField(t, task)
        system == Message("system", system_for(teacher_key, profile))
    IN [ref |-> new,
        heap |-> [h EXCEPT ![new] = <<system>> \o h[shots]]]

\* ------------------------------------------------------------ chat_api
\* the OpenAI key whatever the provider
ProviderKeyOpenAIOnly == OPENAI_API_KEY
\* key, as chat_api selects it from PROVIDER (main.py:165-170)
ProviderKey ==
    IF PROVIDER = "groq" THEN GROQ_API_KEY
    ELSE IF PROVIDER = "openrouter" THEN OPENROUTER_API_KEY
    ELSE OPENAI_API_KEY

\* f"Server not configured: missing API key for provider '{PROVIDER}'."
NotConfigured ==
    PyStr(<<"Server not configured: missing API key for provider '">>
          \o Lit(PROVIDER) \o <<"'.">>)

\* no cut at all
PrefixNoCut(text, n) == text
\* r.text[:n]
Prefix(text, n) == SubSeq(text, 1, IF Len(text) < n THEN Len(text) ELSE n)

\* f"{PROVIDER} error {r.status_code}: {r.text[:500]}"
HttpErrorResult(r) ==
    PyStr(Lit(PROVIDER) \o <<" error ">> \o Str(PyInt(r.status_code)) \o <<": ">>
          \o Prefix(r.text, TruncLen))

\* f"Server exception while calling provider '{PROVIDER}': {last_err}"
ServerException(err) ==
    PyStr(<<"Server exception while calling provider '">> \o Lit(PROVIDER)
          \o <<"': ">> \o ExcStr(err))

NoContent == PyStr(<<"(no content)">>)

\* v.get(key, default)
Get(v, key, default) ==
    IF v.type # "dict"
    THEN Raise("AttributeError", <<"'", v.type, "' object has no attribute 'get'">>)
    ELSE Value(IF key \in DOMAIN v.o THEN v.o[key] ELSE default)

\* v[0]
Index0(v) ==
    CASE v.type = "list" ->
            IF v.a = << >> THEN Raise("IndexError", <<"list index out of range">>)
            ELSE Value(v.a[1])
      [] v.type = "str" ->
            IF v.s = << >> THEN Raise("IndexError", <<"string index out of range">>)
            ELSE Value(PyStr(<<v.s[1]>>))
      [] v.type = "dict" -> Raise("KeyError", <<"0">>)
      [] OTHER -> Raise("TypeError", <<"'", v.type, "' object is not subscriptable">>)

\* j.get("choices", [{}])[0].get("message", {}).get("content")
Content(j) ==
    LET choices == Get(j, "choices", PyList(<<EmptyDict>>))
    IN IF choices.raised THEN choices
       ELSE LET first == Index0(choices.val)
            IN IF first.raised THEN first
               ELSE LET message == Get(first.val, "message", EmptyDict)
                    IN IF message.raised THEN message
                       ELSE Get(message.val, "content", PyNone)

\* the placeholder for None alone
ContentUnlessNone(content) == IF content.type = "NoneType" THEN NoContent ELSE content
\* content or "(no content)"
ContentOrPlaceholder(content) == Or(content, NoContent)

\* the body of the try block for one upstream outcome o of requests.post:
\* a value when the block returns, an exception when it raises
TryBody(o) ==
    IF o.kind = "raise" THEN [raised |-> TRUE, exc |-> o.exc]
    ELSE IF o.status_code >= ErrorStatus THEN Value(HttpErrorResult(o))
    ELSE IF o.json.raised THEN o.json
    ELSE LET content == Content(o.json.val)
         IN IF content.raised THEN content
            ELSE Value(ContentOrPlaceholder(content.val))

\* sleep that is not flat: it doubles with every failed iteration
SleepDoubling(k) == SleepTenths * (2 ^ k)
\* time.sleep(1.2) in the except clause of the k-th iteration (k from 0), in
\* tenths of a second: the same after every failure
SleepAfterFailure(k) == SleepTenths

\* one iteration too many
IterationsOffByOne(retr) == retr + 2
\* range(retries + 1): the number of iterations of the loop
Iterations(retr) == retr + 1

\* ------------------------------------------------------ upstream outcomes
Timeout == [type |-> "Timeout", msg |-> <<"Read timed out.">>]
ConnectionError == [type |-> "ConnectionError", msg |-> <<"Connection refused">>]
NetworkErrors == {Timeout, ConnectionError}

\* how long requests.post takes: a timeout takes the whole timeout
Duration(o, tmo) ==
    IF o.kind = "raise" /\ o.exc.type = "Timeout" THEN 10 * tmo ELSE QuickTenths

Chars(n) == [i \in 1..n |-> ToString(i % 10)]
ErrorTexts == {Chars(0), Chars(TruncLen), Chars(TruncLen + MaxExtra)}
ErrorStatuses == {ErrorStatus, 429}

InvalidJson == Raise("JSONDecodeError", <<"Expecting value">>)
WithContent(c) ==
    PyDict([choices |-> PyList(<< PyDict([message |-> PyDict([content |-> c])]) >>)])
\* bodies r.json() or the lookups raise on
RaisingJson ==
    { InvalidJson,
      Value(PyList(<< >>)),
      Value(PyDict([choices |-> PyList(<< >>)])) }
\* bodies the lookups succeed on: no choices, content null, content empty,
\* content a str, content a list of parts
ReturningJson ==
    { Value(EmptyDict),
      Value(WithContent(PyNone)),
      Value(WithContent(PyStr(<< >>))),
      Value(WithContent(PyStr(<<"answer">>))),
      Value(WithContent(PyList(<< PyDict([text |-> PyStr(<<"answer">>)]) >>))) }

Raises == {[kind |-> "raise", exc |-> e] : e \in NetworkErrors}
Response(status, text, json) ==
    [kind |-> "response", status_code |-> status, text |-> text, json |-> json]
ErrorResponses ==
    {Response(s, t, InvalidJson) : s \in ErrorStatuses, t \in ErrorTexts}
OkResponses ==
    {Response(200, <<"body">>, j) : j \in RaisingJson \cup ReturningJson}
    \cup {Response(ErrorStatus - 1, <<"body">>, Value(WithContent(PyStr(<<"answer">>))))}

\* ------------------------------------------------------------- requests
NoRequest == [endpoint |-> "none"]
NoReply == [status |-> 0, body |-> PyNone]
Reply(status, body) == [status |-> status, body |-> body]

\* what the worker is left with once the current call returned res
Return(r, endpoint, res) ==
    /\ pc' = [pc EXCEPT ![r] = "done"]
    /\ result' = [result EXCEPT ![r] = res]
    /\ reply' = [reply EXCEPT ![r] =
                    IF endpoint = "chat_api" THEN NoReply ELSE Reply(200, res)]

\* chat_api(messages, retries, timeout_sec) up to its first request
\* (main.py:164-175), for the worker r serving `endpoint`
ChatCall(r, endpoint, messages, retr, tmo) ==
    /\ msgs' = [msgs EXCEPT ![r] = messages]
    /\ retries' = [retries EXCEPT ![r] = retr]
    /\ timeout_sec' = [timeout_sec EXCEPT ![r] = tmo]
    /\ attempt' = [attempt EXCEPT ![r] = 0]
    /\ log' = [log EXCEPT ![r] = << >>]
    /\ elapsed' = [elapsed EXCEPT ![r] = 0]
    /\ last_err' = [last_err EXCEPT ![r] = PyNone]
    /\ IF ProviderKey = ""
       THEN Return(r, endpoint, NotConfigured)
       ELSE /\ pc' = [pc EXCEPT ![r] = "attempt"]
            /\ UNCHANGED <<result, reply>>

\* one iteration of chat_api's loop (main.py:176-185) with upstream outcome
\* o, and the return after the loop when this was the last iteration
Attempt(r, o) ==
    /\ pc[r] = "attempt"
    /\ log' = [log EXCEPT ![r] = Append(@, o)]
    /\ LET out == TryBody(o)
       IN IF ~out.raised
          THEN /\ elapsed' = [elapsed EXCEPT ![r] = @ + Duration(o, timeout_sec[r])]
               /\ Return(r, req[r].endpoint, out.val)
               /\ UNCHANGED <<attempt, last_err>>
          ELSE /\ last_err' = [last_err EXCEPT ![r] = out.exc]
               /\ elapsed' = [elapsed EXCEPT ![r] =
                                @ + Duration(o, timeout_sec[r]) + SleepAfterFailure(attempt[r])]
               /\ attempt' = [attempt EXCEPT ![r] = @ + 1]
               /\ IF attempt[r] + 1 >= Iterations(retries[r])
                  THEN Return(r, req[r].endpoint, ServerException(out.exc))
                  ELSE UNCHANGED <<pc, result, reply>>
    /\ UNCHANGED <<config, TEACHERS, heap, req, msgs, retries, timeout_sec>>

\* requests.post raises
post_raises(r) == \E o \in Raises : Attempt(r, o)
\* requests.post returns a response with status >= 400
post_error_status(r) == \E o \in ErrorResponses : Attempt(r, o)
\* requests.post returns a response with status < 400
post_ok(r) == \E o \in OkResponses : Attempt(r, o)

\* ------------------------------------------------------------- handlers
\* f"{TEACHERS[teacher]['name']}: ..." of the USE_FAKE branches
FakeReply(endpoint, name) == PyStr(name \o <<": canned reply for ", endpoint>>)

\* f"Unhandled server exception: {e}"
Unhandled(exc) == PyStr(<<"Unhandled server exception: ">> \o ExcStr(exc))

\* TEACHERS[teacher]: the persona, or KeyError(teacher), whose str is repr(teacher)
TeacherIndex(teacher) ==
    IF teacher \in DOMAIN TEACHERS THEN Value(TEACHERS[teacher])
    ELSE Raise("KeyError", <<"'">> \o teacher \o <<"'">>)

\* data.teacher or "gentle_brother"
TeacherOf(data) == Or(data.teacher, PyStr(DefaultTeacher)).s

\* the try block shared by question_api, consult_api and todo_coach_api, from
\* its first line to chat_api's first request: `task` is the few-shot task,
\* `content` the text of the user turn
Handle(r, endpoint, data, task, content) ==
    /\ pc[r] = "idle"
    /\ req' = [req EXCEPT ![r] = [endpoint |-> endpoint, data |-> data]]
    /\ LET teacher == TeacherOf(data)
       IN IF USE_FAKE = "1"
          THEN LET t == TeacherIndex(teacher)
               IN /\ pc' = [pc EXCEPT ![r] = "done"]
                  /\ reply' = [reply EXCEPT ![r] =
                        Reply(200, IF t.raised THEN Unhandled(t.exc)
                                   ELSE FakeReply(endpoint, t.val.name))]
                  /\ UNCHANGED <<heap, frame>>
          ELSE LET built == scaffold_messages(heap, ReqAddr(r), teacher, data.profile, task)
               IN /\ heap' = [built.heap EXCEPT ![built.ref] =
                                Append(@, Message("user", content))]
                  /\ ChatCall(r, endpoint, built.ref, DefaultRetries, DefaultTimeoutSec)
    /\ UNCHANGED <<config, TEACHERS>>

\* the body classes: a required str field is present and a str
QuestionIn(body) == body.question.type = "str"
ConsultIn(body) == body.message.type = "str"

\* int(t.due) for a due time given in tenths
IntOf(due) == due \div 10

\* f"- {t.title}{due}/{done}"
TaskLine(t) ==
    <<"- ">> \o t.title
    \o (IF t.due = 0 THEN << >> ELSE <<"(due=", ToString(IntOf(t.due)), ")">>)
    \o <<"/">> \o (IF t.done THEN <<"done">> ELSE <<"open">>)

\* "\n".join(lines)
RECURSIVE Join(_)
Join(lines) ==
    IF lines = << >> THEN << >>
    ELSE IF Len(lines) = 1 THEN lines[1]
    ELSE lines[1] \o <<"\n">> \o Join(Tail(lines))

\* "[Tasks]\n" + "\n".join(lines) if lines else "[Tasks] none"
Digest(tasks) ==
    LET lines == [i \in 1..Len(tasks) |-> TaskLine(tasks[i])]
    IN IF lines # << >> THEN <<"[Tasks]\n">> \o Join(lines) ELSE <<"[Tasks] none">>

\* POST /question with a body the QuestionIn class accepts
question_api(r, bodies) ==
    \E data \in bodies :
        /\ QuestionIn(data)
        /\ Handle(r, "question", data, "question", data.question.s)

\* POST /consult with a body the ConsultIn class accepts
consult_api(r, bodies) ==
    \E data \in bodies :
        /\ ConsultIn(data)
        /\ Handle(r, "consult", data, "consult", data.message.s)

\* POST /todo/coach
todo_coach_api(r, bodies) ==
    \E data \in bodies : Handle(r, "todo", data, "todo", Digest(data.tasks))

\* POST /question or /consult with a body its class rejects: the framework
\* answers 422 and the handler is not called
validation_error(r, qbodies, cbodies) ==
    /\ pc[r] = "idle"
    /\ \/ \E data \in qbodies :
            /\ ~QuestionIn(data)
            /\ req' = [req EXCEPT ![r] = [endpoint |-> "question", data |-> data]]
       \/ \E data \in cbodies :
            /\ ~ConsultIn(data)
            /\ req' = [req EXCEPT ![r] = [endpoint |-> "consult", data |-> data]]
    /\ pc' = [pc EXCEPT ![r] = "done"]
    /\ reply' = [reply EXCEPT ![r] = Reply(422, PyDict([detail |-> PyStr(<<"field required">>)]))]
    /\ UNCHANGED <<config, TEACHERS, heap, frame>>

\* the worker hands over what it returned and is free again; the list the
\* request built is garbage
Respond(r) ==
    /\ pc[r] = "done"
    /\ pc' = [pc EXCEPT ![r] = "idle"]
    /\ req' = [req EXCEPT ![r] = NoRequest]
    /\ reply' = [reply EXCEPT ![r] = NoReply]
    /\ heap' = [heap EXCEPT ![ReqAddr(r)] = << >>]
    /\ msgs' = [msgs EXCEPT ![r] = 0]
    /\ retries' = [retries EXCEPT ![r] = 0]
    /\ timeout_sec' = [timeout_sec EXCEPT ![r] = 0]
    /\ attempt' = [attempt EXCEPT ![r] = 0]
    /\ last_err' = [last_err EXCEPT ![r] = PyNone]
    /\ result' = [result EXCEPT ![r] = PyNone]
    /\ log' = [log EXCEPT ![r] = << >>]
    /\ elapsed' = [elapsed EXCEPT ![r] = 0]
    /\ UNCHANGED <<config, TEACHERS>>

\* chat_api called on its own, with any retries and timeout_sec
chat_api(r) ==
    /\ pc[r] = "idle"
    /\ \E retr \in 0..MaxRetries, tmo \in {1, DefaultTimeoutSec} :
        /\ req' = [req EXCEPT ![r] = [endpoint |-> "chat_api"]]
        /\ heap' = [heap EXCEPT ![ReqAddr(r)] = <<Message("user", <<"hi">>)>>]
        /\ ChatCall(r, "chat_api", ReqAddr(r), retr, tmo)
    /\ UNCHANGED <<config, TEACHERS>>

\* ----------------------------------------------------------------- inputs
Texts == {PyStr(<< >>), PyStr(<<"2x+3=7">>)}
\* absent, empty, two registry keys, and a name that is no key
TeacherIds == {PyNone, PyStr(<< >>), PyStr(<<"yankee">>), PyStr(DefaultTeacher),
               PyStr(<<"natsuki">>)}
Profiles == {PyNone,
             PyDict([nickname |-> <<"Taro">>, ageGroup |-> <<"highschool">>,
                     temperament |-> <<"fast">>])}
TaskIns == {[id |-> <<"t1">>, title |-> <<"report">>, due |-> 0, done |-> FALSE],
            [id |-> <<"t2">>, title |-> <<"laundry">>, due |-> 175, done |-> TRUE]}
TaskLists == UNION {[1..n -> TaskIns] : n \in 0..MaxTasks}

QuestionBodies ==
    {[question |-> q, teacher |-> t, profile |-> p] :
        q \in Texts \cup {PyNone}, t \in TeacherIds, p \in Profiles}
ConsultBodies ==
    {[message |-> m, teacher |-> t, profile |-> p] :
        m \in Texts \cup {PyNone}, t \in TeacherIds, p \in Profiles}
CoachBodies ==
    {[tasks |-> ts, teacher |-> t, profile |-> p] :
        ts \in TaskLists, t \in TeacherIds, p \in Profiles}

\* ----------------------------------------------------------- specification
Providers == {"openai", "groq", "openrouter", "azure"}
Keys == {"", "sk-test"}

\* the process after the module is loaded, for the environment's settings
Loaded ==
    /\ PROVIDER \in Providers
    /\ OPENAI_API_KEY \in Keys
    /\ GROQ_API_KEY \in Keys
    /\ OPENROUTER_API_KEY \in Keys
    /\ TEACHERS = TeacherRegistry
    /\ heap = InitialHeap
    /\ pc = [r \in Workers |-> "idle"]
    /\ req = [r \in Workers |-> NoRequest]
    /\ msgs = [r \in Workers |-> 0]
    /\ retries = [r \in Workers |-> 0]
    /\ timeout_sec = [r \in Workers |-> 0]
    /\ attempt = [r \in Workers |-> 0]
    /\ last_err = [r \in Workers |-> PyNone]
    /\ result = [r \in Workers |-> PyNone]
    /\ reply = [r \in Workers |-> NoReply]
    /\ log = [r \in Workers |-> << >>]
    /\ elapsed = [r \in Workers |-> 0]

Init == Loaded /\ USE_FAKE \in {"0", "1"}

\* the service with one request at a time
Next ==
    \E r \in {1} :
        \/ question_api(r, QuestionBodies)
        \/ consult_api(r, ConsultBodies)
        \/ todo_coach_api(r, CoachBodies)
        \/ validation_error(r, QuestionBodies, ConsultBodies)
        \/ post_raises(r)
        \/ post_error_status(r)
        \/ post_ok(r)
        \/ Respond(r)

Spec == Init /\ [][Next]_vars

\* chat_api on its own
InitChat == Loaded /\ USE_FAKE = "0"

NextChat ==
    \E r \in {1} :
        \/ chat_api(r)
        \/ post_raises(r)
        \/ post_error_status(r)
        \/ post_ok(r)
        \/ Respond(r)

SpecChat == InitChat /\ [][NextChat]_vars

\* requests served concurrently by the threadpool's workers, for the default
\* provider
InitConc ==
    /\ Loaded
    /\ USE_FAKE \in {"0", "1"}
    /\ PROVIDER = "openai"
    /\ GROQ_API_KEY = ""
    /\ OPENROUTER_API_KEY = ""

ConcTeacherIds == {PyNone, PyStr(<<"yankee">>)}
ConcQuestionBodies ==
    {[question |-> q, teacher |-> t, profile |-> PyNone] : q \in Texts, t \in ConcTeacherIds}
ConcConsultBodies ==
    {[message |-> PyStr(<<"2x+3=7">>), teacher |-> t, profile |-> PyNone] : t \in ConcTeacherIds}
ConcCoachBodies ==
    {[tasks |-> << >>, teacher |-> t, profile |-> PyNone] : t \in ConcTeacherIds}
ConcOutcomes ==
    { [kind |-> "raise", exc |-> Timeout],
      Response(200, <<"body">>, Value(WithContent(PyStr(<<"answer">>)))) }

\* one iteration of some worker's loop
post(r) == \E o \in ConcOutcomes : Attempt(r, o)

NextConc ==
    \E r \in Workers :
        \/ question_api(r, ConcQuestionBodies)
        \/ consult_api(r, ConcConsultBodies)
        \/ todo_coach_api(r, ConcCoachBodies)
        \/ post(r)
        \/ Respond(r)

SpecConc == InitConc /\ [][NextConc]_vars

\* ================================================================ claims
Handlers == {"question", "consult", "todo"}

\* worker r serves a request its handler was called for
Served(r) == req[r].endpoint \in Handlers /\ reply[r].status # 422

\* worker r is inside a call of chat_api, or has returned from one
InCall(r) == pc[r] # "idle" /\ msgs[r] # 0

\* the key of the selected provider is unset or empty
SelectedKeyMissing ==
    \/ PROVIDER = "groq" /\ GROQ_API_KEY = ""
    \/ PROVIDER = "openrouter" /\ OPENROUTER_API_KEY = ""
    \/ PROVIDER \notin {"groq", "openrouter"} /\ OPENAI_API_KEY = ""

\* every request sent so far in worker r's call raised a network-level exception
AllRaised(r) == \A i \in 1..Len(log[r]) : log[r][i].kind = "raise"

\* s starts with the tokens of p
StartsWith(s, p) == Len(s) >= Len(p) /\ SubSeq(s, 1, Len(p)) = p
\* s ends with the tokens of p
EndsWith(s, p) == Len(s) >= Len(p) /\ SubSeq(s, Len(s) - Len(p) + 1, Len(s)) = p

\* the persona key the request's teacher identifier stands for
Resolved(data) ==
    IF data.teacher.type = "str" /\ data.teacher.s \in DOMAIN TeacherRegistry
    THEN data.teacher.s
    ELSE <<"gentle_brother">>

\* the few-shot task of an endpoint
TaskIndex(endpoint) == CHOOSE t \in 1..Len(Tasks) : Tasks[t] = endpoint
KeyIndex(key) == CHOOSE k \in 1..Len(TeacherKeys) : <<TeacherKeys[k]>> = key

\* the text of the request's user turn
UserText(request) ==
    CASE request.endpoint = "question" -> request.data.question.s
      [] request.endpoint = "consult" -> request.data.message.s
      [] request.endpoint = "todo" -> Digest(request.data.tasks)

\* C1: a request that passed body validation ends with a textual reply: once
\* the handler has returned, the client's reply is a 200 whose body is a str.
C1_TextualReply ==
    \A r \in Workers :
        (pc[r] = "done" /\ Served(r)) =>
            reply[r].status = 200 /\ reply[r].body.type = "str"

\* C2: chat_api sends at most retries+1 requests; when all retries+1 attempts
\* raise, it has sent exactly retries+1 and returns 'Server exception while
\* calling provider ...' ending with the text of the last exception.
C2_BoundedRetry ==
    \A r \in Workers :
        /\ Len(log[r]) <= retries[r] + 1
        /\ (pc[r] = "done" /\ InCall(r) /\ ~SelectedKeyMissing /\ AllRaised(r)) =>
            /\ Len(log[r]) = retries[r] + 1
            /\ result[r].type = "str"
            /\ StartsWith(result[r].s, <<"Server exception while calling provider '", PROVIDER>>)
            /\ EndsWith(result[r].s, log[r][Len(log[r])].exc.msg)

C2_Witness ==
    \E r \in Workers :
        /\ pc[r] = "done" /\ InCall(r) /\ AllRaised(r)
        /\ retries[r] = MaxRetries /\ Len(log[r]) = MaxRetries + 1
        /\ log[r][1].exc.type = "ConnectionError"
        /\ log[r][Len(log[r])].exc.type = "Timeout"
        /\ EndsWith(result[r].s, <<"Read timed out.">>)

\* C3: a response with status >= 400 is the last request of the call, and the
\* call returned a str that holds the status code and, after it, a prefix of
\* the response body of at most 500 characters.
C3_HttpErrorNoRetry ==
    \A r \in Workers :
        \A i \in 1..Len(log[r]) :
            (log[r][i].kind = "response" /\ log[r][i].status_code >= 400) =>
                /\ i = Len(log[r])
                /\ pc[r] = "done"
                /\ result[r].type = "str"
                /\ LET s == result[r].s
                       body == SubSeq(s, 5, Len(s))
                   IN /\ StartsWith(s, <<PROVIDER, " error ", ToString(log[r][i].status_code), ": ">>)
                      /\ Len(body) <= 500
                      /\ body = SubSeq(log[r][i].text, 1, Len(body))

C3_Witness ==
    \E r \in Workers :
        /\ pc[r] = "done"
        /\ Len(log[r]) = 2
        /\ log[r][1].kind = "raise"
        /\ log[r][2].kind = "response"
        /\ log[r][2].status_code = 429
        /\ Len(log[r][2].text) > 500
        /\ Len(result[r].s) = 504

\* C4: with the selected provider's key unset or empty, a call of chat_api has
\* returned 'Server not configured: missing API key ...' and sent no request,
\* whatever retries and whatever the other providers' keys.
C4_MissingKey ==
    \A r \in Workers :
        (InCall(r) /\ SelectedKeyMissing) =>
            /\ pc[r] = "done"
            /\ log[r] = << >>
            /\ result[r] = PyStr(<<"Server not configured: missing API key for provider '",
                                  PROVIDER, "'.">>)

C4_Witness ==
    \E r \in Workers :
        /\ InCall(r)
        /\ PROVIDER = "groq" /\ GROQ_API_KEY = ""
        /\ OPENAI_API_KEY # "" /\ OPENROUTER_API_KEY # ""
        /\ retries[r] = MaxRetries
        /\ pc[r] = "done"

\* C5: a /question or /consult request whose primary text field is the empty
\* str has no provider request sent on its behalf.
C5_EmptyTextNoCall ==
    \A r \in Workers :
        ( \/ req[r].endpoint = "question" /\ req[r].data.question = PyStr(<< >>)
          \/ req[r].endpoint = "consult" /\ req[r].data.message = PyStr(<< >>) )
        => Len(log[r]) = 0

\* C6: the reply of a served request is built from a persona of TEACHERS, the
\* one the teacher identifier names, or gentle_brother when the identifier is
\* absent, empty or no key: the canned reply starts with that persona's name,
\* and the list handed to chat_api starts with that persona's system message.
C6_PersonaTotal ==
    \A r \in Workers :
        (pc[r] = "done" /\ Served(r)) =>
            LET persona == TeacherRegistry[Resolved(req[r].data)]
            IN IF USE_FAKE = "1"
               THEN reply[r].body.type = "str" /\ StartsWith(reply[r].body.s, persona.name)
               ELSE /\ msgs[r] # 0
                    /\ heap[msgs[r]] # << >>
                    /\ heap[msgs[r]][1].role = "system"
                    /\ StartsWith(heap[msgs[r]][1].content,
                                  <<"You are homeroom teacher '">> \o persona.name)

\* C7: the list handed to chat_api is one system message built from the
\* resolved persona, then that persona's few-shot examples for the endpoint's
\* task, then one user message with the request's text; no other message has
\* the role system.
C7_MessageShape ==
    \A r \in Workers :
        (InCall(r) /\ req[r].endpoint \in Handlers) =>
            LET m == heap[msgs[r]]
                key == Resolved(req[r].data)
                persona == TeacherRegistry[key]
                shots == FewShot(KeyIndex(key), TaskIndex(req[r].endpoint))
            IN /\ Len(m) = Len(shots) + 2
               /\ m[1].role = "system"
               /\ StartsWith(m[1].content,
                             <<"You are homeroom teacher '">> \o persona.name
                             \o <<"'. ">> \o persona.style)
               /\ SubSeq(m, 2, Len(m) - 1) = shots
               /\ m[Len(m)] = [role |-> "user", content |-> UserText(req[r])]
               /\ \A i \in 2..Len(m) : m[i].role # "system"

C7_Witness ==
    \E r \in Workers :
        /\ pc[r] = "attempt"
        /\ req[r].endpoint = "todo"
        /\ req[r].data.teacher = PyStr(<<"natsuki">>)
        /\ req[r].data.tasks # << >>
        /\ Len(heap[msgs[r]]) = 4
        /\ heap[msgs[r]][2].content = <<"shot-user", "gentle_brother", "todo">>

AllAttemptsRaised(r) ==
    /\ pc[r] = "done" /\ InCall(r) /\ ~SelectedKeyMissing
    /\ AllRaised(r) /\ Len(log[r]) = retries[r] + 1

\* C9 as stated: when every attempt fails at transport level, chat_api returns
\* within (retries + 1) * timeout_sec.
C9_WithinTimeouts ==
    \A r \in Workers :
        AllAttemptsRaised(r) => elapsed[r] <= (retries[r] + 1) * (10 * timeout_sec[r])

\* C9 amended: when every attempt fails at transport level, chat_api returns
\* within (retries + 1) * (timeout_sec + 1.2 s), the sleep after each failed
\* attempt counted, and the result starts with the marker 'Server exception
\* while calling provider'.
C9_WithinTimeoutsAndSleeps ==
    \A r \in Workers :
        AllAttemptsRaised(r) =>
            /\ elapsed[r] <= (retries[r] + 1) * (10 * timeout_sec[r] + 12)
            /\ result[r].type = "str"
            /\ StartsWith(result[r].s, <<"Server exception while calling provider '">>)

C9_Witness ==
    \E r \in Workers :
        /\ AllAttemptsRaised(r)
        /\ retries[r] = 1 /\ timeout_sec[r] = 30
        /\ \A i \in 1..Len(log[r]) : log[r][i].exc.type = "Timeout"
        /\ elapsed[r] = 624

\* C10: TEACHERS and every few-shot list keep their initial value whatever
\* requests are served, one after another or interleaved, and the list built
\* for a request is the one its own fields determine.
C10_RegistryUnchanged ==
    /\ TEACHERS = TeacherRegistry
    /\ \A a \in 1..NumShotLists : heap[a] = InitialHeap[a]
    /\ \A r \in Workers :
        (InCall(r) /\ req[r].endpoint \in Handlers) =>
            LET key == Resolved(req[r].data)
            IN /\ msgs[r] > NumShotLists
               /\ Len(heap[msgs[r]]) = 4
               /\ SubSeq(heap[msgs[r]], 2, 3) =
                    InitialHeap[ShotAddr(KeyIndex(key), TaskIndex(req[r].endpoint))]
               /\ heap[msgs[r]][4].content = UserText(req[r])

C10_Witness ==
    /\ pc[1] = "attempt" /\ pc[2] = "attempt"
    /\ req[1].endpoint = "question" /\ req[2].endpoint = "question"
    /\ req[1].data.teacher = req[2].data.teacher
    /\ req[1].data.question # req[2].data.question
    /\ Len(log[1]) = 1
    /\ heap[msgs[1]] # heap[msgs[2]]

====
